---- MODULE Spec2Model ----
(***************************************************************************)
(* Model of the ISA datatype of Galaxy (lib/galaxy/datatypes/isa.py):      *)
(* archive type detection, member listing, investigation file lookup,      *)
(* sniffing and extraction of an ISA archive.                              *)
(*                                                                         *)
(* Byte strings are sequences of byte values, file names and paths are     *)
(* sequences of one-character strings, so that prefix tests, str.replace   *)
(* and the regular expression are computed character by character.         *)
(***************************************************************************)
EXTENDS Integers, Sequences, FiniteSets, TLC

VARIABLES
    stream,       \* the bytes of the archive file behind the stream handle
    pos,          \* the read position of the stream handle
    pos_before,   \* history: the read position when _detect_file_type was entered
    file_type,    \* the value last returned by _detect_file_type
    op,           \* the operation that completed last, with how it ended
    ret,          \* the value that operation returned, <<>> when it raised
    namelist,     \* the member names the container of the archive encodes
    members,      \* the tree the container of the archive unpacks to
    corrupt,      \* whether the container of the archive cannot be read
    fs,           \* the directories that exist, each with its entries
    fs_before,    \* history: fs when _extract_archive was entered
    calls,        \* the number of _extract_archive calls so far
    output_path,  \* the directory the last _extract_archive call extracted into
    exc,          \* the exception that call raised, "" when it returned
    extra_files,  \* the dataset's extra files path: unset, missing or present
    isa_files,    \* the names of the files in the extra files folder
    main_rule,    \* history: the rule that found the main file in the last call
    main_rules    \* history: the rules that have found a main file so far

vars == <<stream, pos, pos_before, file_type, op, ret, namelist,
          members, corrupt, fs, fs_before, calls, output_path, exc,
          extra_files, isa_files, main_rule, main_rules>>

\* the variables of the main file lookup, which the other operations leave alone
mainVars == <<extra_files, isa_files, main_rule, main_rules>>

\* the variables of the extraction, which the other operations leave alone
extractVars == <<members, corrupt, fs, fs_before, calls, output_path, exc>>

----------------------------------------------------------------------------
(* Bounds *)

\* longest archive file (in bytes) of the type detection specification
MaxStreamLen == 4

----------------------------------------------------------------------------
(* Python helpers *)

\* Python's None, as returned for a file type
None == "None"

\* s.startswith(p)
StartsWith(s, p) == Len(p) <= Len(s) /\ SubSeq(s, 1, Len(p)) = p

\* s.endswith(p)
EndsWith(s, p) == Len(p) <= Len(s) /\ SubSeq(s, Len(s) - Len(p) + 1, Len(s)) = p

Min(a, b) == IF a <= b THEN a ELSE b

\* stream.read(n) at position p: the bytes returned (fewer than n at the end)
ReadBytes(s, p, n) == SubSeq(s, p + 1, Min(Len(s), p + n))

----------------------------------------------------------------------------
(* Archive types *)

GzPrefix == <<31, 139, 8>>
Bz2Prefix == <<66, 90, 104>>
ZipPrefix == <<80, 75, 3, 4>>

FILE_TYPE_PREFIX == (GzPrefix :> "gz") @@ (Bz2Prefix :> "bz2") @@ (ZipPrefix :> "zip")

MaxOf(S) == CHOOSE m \in S : \A x \in S : x <= m

MAX_LEN_FILE_TYPE_PREFIX == MaxOf({Len(x) : x \in DOMAIN FILE_TYPE_PREFIX})

\* _FILE_TYPE_REGEX.match(file_start): the alternative of the pattern that
\* file_start begins with, as a set (empty when the match is None)
FileTypeRegexMatch(file_start) ==
    {p \in DOMAIN FILE_TYPE_PREFIX : StartsWith(file_start, p)}

\* the value _detect_file_type returns for the bytes it has read
DetectedType(file_start) ==
    LET matched_prefix == FileTypeRegexMatch(file_start)
    IN  IF matched_prefix # {}
        THEN FILE_TYPE_PREFIX[CHOOSE p \in matched_prefix : TRUE]
        ELSE None

\* a read that is one byte short of the longest prefix
DetectReadLen_Short == MAX_LEN_FILE_TYPE_PREFIX - 1

\* the number of bytes _detect_file_type reads
DetectReadLen == MAX_LEN_FILE_TYPE_PREFIX

\* the position _detect_file_type leaves the stream at: stream.seek(0)
DetectSeek(p) == 0

\* _detect_file_type(stream) on a stream at position p
DetectFileType(s, p) ==
    [file_type |-> DetectedType(ReadBytes(s, p, DetectReadLen)),
     pos       |-> DetectSeek(p)]

----------------------------------------------------------------------------
(* Directories *)

\* a directory with no entry
EmptyDir == <<>>

\* the caller's destination directory, and the directories call n mints
\* with tempfile.mkdtemp()
TargetDir == <<0, "output_path">>
MintedOutputPath(n) == <<n, "output_path">>
TempFolder(n) == <<n, "temp_folder">>

\* the state of the extraction variables in the specifications without one
NoExtraction ==
    /\ members = EmptyDir
    /\ corrupt = FALSE
    /\ fs = (TargetDir :> EmptyDir)
    /\ fs_before = (TargetDir :> EmptyDir)
    /\ calls = 0
    /\ output_path = TargetDir
    /\ exc = ""

\* the state of the main file lookup variables in the specifications without one
NoMainFile ==
    /\ extra_files = "unset"
    /\ isa_files = {}
    /\ main_rule = "none"
    /\ main_rules = {}

----------------------------------------------------------------------------
(* Specification of the type detection *)

\* the byte values streams are made of: the bytes of the three prefixes and 0
Bytes == {31, 139, 8, 66, 90, 104, 80, 75, 3, 4, 0}

ByteStrings(n) == UNION {[1..k -> Bytes] : k \in 0..n}

InitDetect ==
    /\ stream \in ByteStrings(MaxStreamLen)
    /\ pos = 0
    /\ pos_before = 0
    /\ file_type = None
    /\ op = "open"
    /\ ret = <<>>
    /\ namelist = <<>>
    /\ NoExtraction
    /\ NoMainFile

\* data = BytesIO(stream.read()): the caller consumes the stream to its end
StreamRead ==
    /\ pos < Len(stream)
    /\ pos' = Len(stream)
    /\ op' = "read"
    /\ UNCHANGED <<stream, pos_before, file_type, ret, namelist, extractVars, mainVars>>

\* a call of _detect_file_type(stream)
DetectFileTypeCall ==
    /\ LET r == DetectFileType(stream, pos)
       IN  /\ file_type' = r.file_type
           /\ pos' = r.pos
    /\ pos_before' = pos
    /\ op' = "detected"
    /\ ret' = <<file_type'>>
    /\ UNCHANGED <<stream, namelist, extractVars, mainVars>>

NextDetect == StreamRead \/ DetectFileTypeCall

SpecDetect == InitDetect /\ [][NextDetect]_vars

----------------------------------------------------------------------------
(* File names and the investigation file rules *)

\* the characters \w matches (no LOCALE or UNICODE flag): [a-zA-Z0-9_]
WordChars ==
    {"a","b","c","d","e","f","g","h","i","j","k","l","m",
     "n","o","p","q","r","s","t","u","v","w","x","y","z",
     "A","B","C","D","E","F","G","H","I","J","K","L","M",
     "N","O","P","Q","R","S","T","U","V","W","X","Y","Z",
     "0","1","2","3","4","5","6","7","8","9","_"}

\* the length of the longest run of word characters of f that starts at index k
RECURSIVE WordRun(_, _)
WordRun(f, k) ==
    IF k <= Len(f) /\ f[k] \in WordChars THEN 1 + WordRun(f, k + 1) ELSE 0

\* re.findall(r"^[i]_[\w]+\.txt", f, flags=re.IGNORECASE): the list of the
\* matched texts, which holds at most the one match at the start of f. [\w]+
\* is greedy and the character after it must be ".", which is no word
\* character, so the run of word characters is taken whole.
TabFindall(f) ==
    LET n == WordRun(f, 3)
        e == 2 + n + 4
    IN  IF /\ Len(f) >= e
           /\ f[1] \in {"i", "I"}
           /\ f[2] = "_"
           /\ n >= 1
           /\ f[e - 3] = "."
           /\ f[e - 2] \in {"t", "T"}
           /\ f[e - 1] \in {"x", "X"}
           /\ f[e] \in {"t", "T"}
        THEN <<SubSeq(f, 1, e)>>
        ELSE <<>>

\* what the loop of _find_isatab_investigation_filename appends for f
TabAppended(f) == IF TabFindall(f) # <<>> THEN <<TabFindall(f)[1]>> ELSE <<>>

\* res of _find_isatab_investigation_filename: the matches, in list order
RECURSIVE TabRes(_)
TabRes(files_list) ==
    IF files_list = <<>> THEN <<>>
    ELSE TabAppended(Head(files_list)) \o TabRes(Tail(files_list))

JsonSuffix == <<".", "j", "s", "o", "n">>

\* res of _find_isajson_json_filename: [f for f in files_list if f.endswith(".json")]
JsonRes(files_list) == SelectSeq(files_list, LAMBDA f : EndsWith(f, JsonSuffix))

\* the tail shared by both finders: the single element of res, else None.
\* A returned name n is <<n>>, None is <<>>.
SingleOrNone(res) == IF Len(res) > 0 /\ Len(res) = 1 THEN <<res[1]>> ELSE <<>>

\* _find_isatab_investigation_filename(files_list)
FindIsatabInvestigationFilename(files_list) == SingleOrNone(TabRes(files_list))

\* _find_isajson_json_filename(files_list)
FindIsajsonJsonFilename(files_list) == SingleOrNone(JsonRes(files_list))

----------------------------------------------------------------------------
(* Listing the members of an archive *)

Slash == "/"

\* s.split("/")[0]
RECURSIVE SplitFirst(_)
SplitFirst(s) ==
    IF s = <<>> \/ Head(s) = Slash THEN <<>>
    ELSE <<Head(s)>> \o SplitFirst(Tail(s))

\* l.remove(x) for an x that is in l: the first occurrence goes
RECURSIVE ListRemove(_, _)
ListRemove(l, x) ==
    IF l = <<>> THEN <<>>
    ELSE IF Head(l) = x THEN Tail(l)
    ELSE <<Head(l)>> \o ListRemove(Tail(l), x)

InList(x, l) == \E i \in 1..Len(l) : l[i] = x

\* the guarded removal: if x in l: l.remove(x)
RemoveIfIn(l, x) == IF InList(x, l) THEN ListRemove(l, x) ELSE l

\* f.replace(old, ''): every non-overlapping occurrence of old is deleted,
\* scanning from the left (old is never empty here)
RECURSIVE Replace(_, _)
Replace(f, old) ==
    IF f = <<>> THEN <<>>
    ELSE IF StartsWith(f, old) THEN Replace(SubSeq(f, Len(old) + 1, Len(f)), old)
    ELSE <<Head(f)>> \o Replace(Tail(f), old)

\* os.path.join(base_path, ''): base_path never ends with the separator here
JoinEmpty(base_path) == base_path \o <<Slash>>

\* the list comprehension that ends the base path filter
StripBasePath(files_list, base_path) ==
    [i \in 1..Len(files_list) |-> Replace(files_list[i], base_path)]

\* the base path filter of _list_archive_files
FilterBasePath(files_list) ==
    IF Len(files_list) > 0
    THEN LET base_path == SplitFirst(files_list[1])
         IN  IF base_path # <<>>
             THEN LET l1 == RemoveIfIn(files_list, base_path)
                      bp == JoinEmpty(base_path)
                      l2 == RemoveIfIn(l1, bp)
                  IN  StripBasePath(l2, bp)
             ELSE files_list
    ELSE files_list

\* _list_archive_files(stream) for a stream at position p over the bytes s
\* of an archive whose container encodes the member names names
ListArchiveFiles(s, p, names) ==
    LET d == DetectFileType(s, p)
    IN  IF d.file_type \in {"zip", "gz"}
        THEN [raised |-> FALSE, a_type |-> d.file_type, pos |-> Len(s),
              files_list |-> FilterBasePath(names)]
        ELSE [raised |-> TRUE, a_type |-> d.file_type, pos |-> d.pos,
              files_list |-> <<>>]

\* sniff(filename): the file is opened anew, so it is read from position 0
Sniff(s, names) ==
    LET l == ListArchiveFiles(s, 0, names)
    IN  IF l.raised
        THEN [raised |-> TRUE, value |-> FALSE]
        ELSE [raised |-> FALSE,
              value |-> \/ FindIsatabInvestigationFilename(l.files_list) # <<>>
                        \/ FindIsajsonJsonFilename(l.files_list) # <<>>]

----------------------------------------------------------------------------
(* Specification of the listing, the investigation file lookup and sniff *)

\* longest member list of an archive
MaxFiles == 3

\* the member names archives are made of
MemberNames ==
    { <<"r">>,                                  \* the root folder, as tar encodes it
      <<"r", "/">>,                             \* the root folder, as zip encodes it
      <<"r", "/", "b">>,
      <<"r", "/", "r", "/", "b">>,
      <<"r", "/", "i", "_", "a", ".", "t", "x", "t">>,
      <<"r", "/", "a", ".", "j", "s", "o", "n">>,
      <<"b">>,
      <<"c", "/", "b">>,
      <<"i", "_", "a", ".", "t", "x", "t">>,
      <<"I", "_", "B", ".", "T", "X", "T">>,
      <<"i", "_", "a", ".", "t", "x", "t", "x">>,
      <<"a", ".", "j", "s", "o", "n">> }

\* the member lists: no name twice
MemberLists(n) ==
    UNION { {l \in [1..k -> MemberNames] :
                \A i, j \in 1..k : l[i] = l[j] => i = j} : k \in 0..n }

\* the archive files: a zip, a tar.gz, a bzip2 and an empty file
ArchiveStreams == {ZipPrefix, GzPrefix \o <<0>>, Bz2Prefix, <<>>}

InitList ==
    /\ stream \in ArchiveStreams
    /\ namelist \in MemberLists(MaxFiles)
    /\ pos = 0
    /\ pos_before = 0
    /\ file_type = None
    /\ op = "open"
    /\ ret = <<>>
    /\ NoExtraction
    /\ NoMainFile

\* a call of _list_archive_files(stream)
ListArchiveFilesCall ==
    /\ LET r == ListArchiveFiles(stream, pos, namelist)
       IN  /\ file_type' = r.a_type
           /\ pos' = r.pos
           /\ op' = IF r.raised THEN "list_raised" ELSE "listed"
           /\ ret' = IF r.raised THEN <<>> ELSE <<r.files_list>>
    /\ pos_before' = pos
    /\ UNCHANGED <<stream, namelist, extractVars, mainVars>>

\* a call of _find_isatab_investigation_filename on the member names
FindIsatabCall ==
    /\ op' = "isatab"
    /\ ret' = <<FindIsatabInvestigationFilename(namelist)>>
    /\ UNCHANGED <<stream, pos, pos_before, file_type, namelist, extractVars, mainVars>>

\* a call of _find_isajson_json_filename on the member names
FindIsajsonCall ==
    /\ op' = "isajson"
    /\ ret' = <<FindIsajsonJsonFilename(namelist)>>
    /\ UNCHANGED <<stream, pos, pos_before, file_type, namelist, extractVars, mainVars>>

\* a call of sniff(filename) on the archive file
SniffCall ==
    /\ LET r == Sniff(stream, namelist)
       IN  /\ op' = IF r.raised THEN "sniff_raised" ELSE "sniffed"
           /\ ret' = IF r.raised THEN <<>> ELSE <<r.value>>
    /\ UNCHANGED <<stream, pos, pos_before, file_type, namelist, extractVars, mainVars>>

NextList == ListArchiveFilesCall \/ FindIsatabCall \/ FindIsajsonCall \/ SniffCall

SpecList == InitList /\ [][NextList]_vars

----------------------------------------------------------------------------
(* Extraction *)

\* The name of the ISA archive (compressed file) as saved inside Galaxy
ISA_ARCHIVE_NAME == <<"a", "r", "c", "h", "i", "v", "e">>

MACOSX == <<"_", "_", "M", "A", "C", "O", "S", "X">>

\* entries of a directory: a file, or a directory with the names of its files
FileNode == [kind |-> "file", children |-> {}]
DirNode(c) == [kind |-> "dir", children |-> c]

\* a filter that forgets the macOS metadata folder
IsVisible_NoMacosx(f) == ~StartsWith(f, <<".">>) /\ f # ISA_ARCHIVE_NAME

\* the filter of tmp_subfolders
IsVisible(f) == ~StartsWith(f, <<".">>) /\ f \notin {ISA_ARCHIVE_NAME, MACOSX}

\* tmp_subfolders of _move_to_target_path, as a set of names
TmpSubfolders(content) == {f \in DOMAIN content : IsVisible(f)}

\* a loop that moves the root folder itself and not what is in it
RootFolderItems_Whole(content, root) == (root :> content[root])

\* the entries the loop over os.listdir(root_folder) moves
RootFolderItems(content, root) == [e \in content[root].children |-> FileNode]

\* the entries the loop over tmp_subfolders moves
SubfolderItems(content) == [f \in TmpSubfolders(content) |-> content[f]]

\* a loop of shutil.move(item, target_path) over items, in the order that
\* os.listdir gives: shutil.move raises Error on a name the target directory
\* has already, after the items before it have been moved
MoveLoop(target, items) ==
    LET existing == DOMAIN items \cap DOMAIN target
    IN  IF existing = {}
        THEN {[ok |-> TRUE, moved |-> DOMAIN items]}
        ELSE {[ok |-> FALSE, moved |-> S] : S \in SUBSET (DOMAIN items \ existing)}

\* dir with the entries of items whose names are in moved added
AddEntries(dir, items, moved) == [e \in moved |-> items[e]] @@ dir

\* dir with the entries named in moved gone
DropEntries(dir, moved) == [f \in DOMAIN dir \ moved |-> dir[f]]

\* shutil.rmtree(d)
Rmtree(f, d) == [x \in DOMAIN f \ {d} |-> f[x]]

\* _move_to_target_path(temp_folder, target_path): the set of the outcomes
MoveToTargetPath(f, temp_folder, target_path) ==
    LET content == f[temp_folder]
        tmp_subfolders == TmpSubfolders(content)
    IN  IF tmp_subfolders = {}
        THEN \* tmp_subfolders[0] raises IndexError
             {[raised |-> "IndexError", fs |-> f]}
        ELSE IF /\ Cardinality(tmp_subfolders) = 1
                /\ content[CHOOSE r \in tmp_subfolders : TRUE].kind = "dir"
        THEN LET root == CHOOSE r \in tmp_subfolders : TRUE
                 items == RootFolderItems(content, root)
             IN  {LET g == [f EXCEPT
                        ![target_path] = AddEntries(@, items, o.moved),
                        ![temp_folder] = [content EXCEPT
                            ![root] = DirNode(content[root].children \ o.moved)]]
                  IN  IF o.ok THEN [raised |-> "", fs |-> Rmtree(g, temp_folder)]
                      ELSE [raised |-> "shutil.Error", fs |-> g]
                  : o \in MoveLoop(f[target_path], items)}
        ELSE IF Cardinality(tmp_subfolders) > 1
        THEN LET items == SubfolderItems(content)
             IN  {LET g == [f EXCEPT
                        ![target_path] = AddEntries(@, items, o.moved),
                        ![temp_folder] = DropEntries(@, o.moved)]
                  IN  IF o.ok THEN [raised |-> "", fs |-> Rmtree(g, temp_folder)]
                      ELSE [raised |-> "shutil.Error", fs |-> g]
                  : o \in MoveLoop(f[target_path], items)}
        ELSE {[raised |-> "", fs |-> Rmtree(f, temp_folder)]}

\* _extract_zip_archive and _extract_tar_archive(stream, target_path): a
\* temporary folder is made, the container is opened and unpacked into it
\* (which raises on a container that cannot be read), and the files are moved
ExtractUnpack(f, n, target_path, mem, bad) ==
    LET temp_folder == TempFolder(n)
        made == (temp_folder :> EmptyDir) @@ f
    IN  IF bad
        THEN {[raised |-> "BadArchive", fs |-> made]}
        ELSE MoveToTargetPath([made EXCEPT ![temp_folder] = mem],
                              temp_folder, target_path)

\* the message of the exception for an archive type with no extraction
NotSupported == "Not supported archive format!!!"

\* a dispatch that hands bzip2 archives to the tar extraction
ExtractDispatch_Bz2AsTar(a_type) ==
    IF a_type = "zip" THEN "zip"
    ELSE IF a_type \in {"gz", "bz2"} THEN "tar"
    ELSE "unsupported"

\* the branch _extract_archive takes for a detected type
ExtractDispatch(a_type) ==
    IF a_type = "zip" THEN "zip"
    ELSE IF a_type = "gz" THEN "tar"
    ELSE "unsupported"

\* _extract_archive(stream, output_path), call number n, for a stream at
\* position p over the bytes s; given tells whether output_path is passed.
\* The set of the outcomes.
ExtractArchive(f, s, p, given, n, mem, bad) ==
    LET out == IF given THEN TargetDir ELSE MintedOutputPath(n)
        f1 == IF given THEN f ELSE (out :> EmptyDir) @@ f
        d == DetectFileType(s, p)
    IN  IF ExtractDispatch(d.file_type) = "unsupported"
        THEN {[raised |-> NotSupported, fs |-> f1, output_path |-> out,
               a_type |-> d.file_type, pos |-> d.pos, ret |-> <<>>]}
        ELSE {[raised |-> o.raised, fs |-> o.fs, output_path |-> out,
               a_type |-> d.file_type, pos |-> Len(s),
               ret |-> IF o.raised = "" THEN <<out>> ELSE <<>>]
              : o \in ExtractUnpack(f1, n, out, mem, bad)}

----------------------------------------------------------------------------
(* Specification of the extraction *)

\* most entries at the top level of an archive
MaxTop == 3

\* most calls of _extract_archive in a behaviour
MaxCalls == 1

\* the names at the top level of archives
TopNames ==
    { <<"d">>, <<"x">>, <<".", "h">>, MACOSX, ISA_ARCHIVE_NAME }

\* the names inside a top-level folder, and in the destination beforehand
InnerNames == { <<"d">>, <<"x">> }

Nodes == {FileNode} \cup {DirNode(c) : c \in SUBSET InnerNames}

\* the trees archives unpack to
Trees(n) ==
    UNION {[S -> Nodes] : S \in {T \in SUBSET TopNames : Cardinality(T) <= n}}

InitExtract ==
    /\ stream \in ArchiveStreams
    /\ \/ corrupt = FALSE /\ members \in Trees(MaxTop)
       \/ corrupt = TRUE /\ members = EmptyDir
    /\ \E S \in SUBSET InnerNames : fs = (TargetDir :> [e \in S |-> FileNode])
    /\ fs_before = fs
    /\ calls = 0
    /\ output_path = TargetDir
    /\ exc = ""
    /\ pos = 0
    /\ pos_before = 0
    /\ file_type = None
    /\ op = "open"
    /\ ret = <<>>
    /\ namelist = <<>>
    /\ NoMainFile

\* a call of _extract_archive(stream, output_path)
ExtractArchiveCall ==
    /\ calls < MaxCalls
    /\ \E given \in BOOLEAN :
         \E r \in ExtractArchive(fs, stream, pos, given, calls + 1, members, corrupt) :
            /\ fs' = r.fs
            /\ file_type' = r.a_type
            /\ pos' = r.pos
            /\ ret' = r.ret
            /\ output_path' = r.output_path
            /\ exc' = r.raised
            /\ op' = IF r.raised = "" THEN "extracted" ELSE "extract_raised"
    /\ fs_before' = fs
    /\ pos_before' = pos
    /\ calls' = calls + 1
    /\ UNCHANGED <<stream, namelist, members, corrupt, mainVars>>

NextExtract == ExtractArchiveCall

SpecExtract == InitExtract /\ [][NextExtract]_vars

----------------------------------------------------------------------------
(* The main file of a dataset *)

\* dataset.extra_files_path, the folder of the dataset's files
IsaFolder == <<"f">>

\* os.path.join(isa_folder, main_file)
JoinPath(isa_folder, main_file) == isa_folder \o <<Slash>> \o main_file

\* os.listdir(isa_folder): the names, in an order that is not specified
Listdir(names) ==
    {l \in [1..Cardinality(names) -> names] :
        \A i, j \in 1..Cardinality(names) : l[i] = l[j] => i = j}

\* _get_main_file(dataset) once isa_folder exists and lists as isa_list:
\* the Tab rule first, the JSON rule if it found nothing, then the full path
MainFileIn(isa_list) ==
    LET tab == FindIsatabInvestigationFilename(isa_list)
        json == IF tab = <<>> THEN FindIsajsonJsonFilename(isa_list) ELSE <<>>
    IN  IF tab # <<>>
        THEN [rule |-> "tab", main_file |-> <<JoinPath(IsaFolder, tab[1])>>]
        ELSE IF json # <<>>
        THEN [rule |-> "json", main_file |-> <<JoinPath(IsaFolder, json[1])>>]
        ELSE [rule |-> "none", main_file |-> <<>>]

\* _get_main_file(dataset): None (<<>>) for a dataset without an extra files
\* path or whose extra files path does not exist
GetMainFile(folder, isa_list) ==
    IF folder = "unset" THEN [rule |-> "none", main_file |-> <<>>]
    ELSE IF folder = "missing" THEN [rule |-> "none", main_file |-> <<>>]
    ELSE MainFileIn(isa_list)

----------------------------------------------------------------------------
(* Specification of the main file lookup *)

\* the names of the files of extra files folders
ExtraFileNames ==
    { <<"i", "_", "a", ".", "t", "x", "t">>,
      <<"I", "_", "B", ".", "T", "X", "T">>,
      <<"a", ".", "j", "s", "o", "n">>,
      <<"b">>,
      ISA_ARCHIVE_NAME }

InitMain ==
    /\ extra_files \in {"unset", "missing", "present"}
    /\ isa_files = IF extra_files = "present" THEN {ISA_ARCHIVE_NAME} ELSE {}
    /\ main_rule = "none"
    /\ main_rules = {}
    /\ op = "open"
    /\ ret = <<>>
    /\ stream = <<>>
    /\ pos = 0
    /\ pos_before = 0
    /\ file_type = None
    /\ namelist = <<>>
    /\ NoExtraction

\* a call of _get_main_file(dataset)
GetMainFileCall ==
    /\ \E isa_list \in Listdir(isa_files) :
         LET r == GetMainFile(extra_files, isa_list)
         IN  /\ ret' = <<r.main_file>>
             /\ main_rule' = r.rule
             /\ main_rules' = IF r.rule = "none" THEN main_rules
                              ELSE main_rules \cup {r.rule}
    /\ op' = "main_file"
    /\ UNCHANGED <<stream, pos, pos_before, file_type, namelist, extractVars,
                   extra_files, isa_files>>

\* groom_dataset_content: shutil.move brings an extracted file into the
\* extra files folder
ExtraFileMoved ==
    /\ extra_files = "present"
    /\ \E f \in ExtraFileNames \ isa_files : isa_files' = isa_files \cup {f}
    /\ op' = "groomed"
    /\ UNCHANGED <<stream, pos, pos_before, file_type, ret, namelist, extractVars,
                   extra_files, main_rule, main_rules>>

\* groom_dataset_content: os.remove(file_name) of the archive file
ArchiveRemoved ==
    /\ extra_files = "present"
    /\ ISA_ARCHIVE_NAME \in isa_files
    /\ isa_files' = isa_files \ {ISA_ARCHIVE_NAME}
    /\ op' = "groomed"
    /\ UNCHANGED <<stream, pos, pos_before, file_type, ret, namelist, extractVars,
                   extra_files, main_rule, main_rules>>

NextMain == GetMainFileCall \/ ExtraFileMoved \/ ArchiveRemoved

SpecMain == InitMain /\ [][NextMain]_vars

----------------------------------------------------------------------------
(* What the claims speak of *)

\* f lies under the top-level directory R
UnderRoot(f, R) == Len(f) > Len(R) + 1 /\ StartsWith(f, R \o <<Slash>>)

\* f is the entry of the directory R itself, as tar ('R') or zip ('R/') encode it
IsRootEntry(f, R) == f = R \/ f = R \o <<Slash>>

\* the top-level directories that every member of l lies under (at most one)
CommonRoots(l) ==
    {R \in {SplitFirst(l[i]) : i \in 1..Len(l)} :
        /\ R # <<>>
        /\ \A i \in 1..Len(l) : IsRootEntry(l[i], R) \/ UnderRoot(l[i], R)
        /\ \E i \in 1..Len(l) : UnderRoot(l[i], R)}

\* the members of l other than the entry of R, each relative to R
RootStripped(l, R) ==
    LET kept == SelectSeq(l, LAMBDA f : ~IsRootEntry(f, R))
    IN  [i \in 1..Len(kept) |-> SubSeq(kept[i], Len(R) + 2, Len(kept[i]))]

\* the member list after removal of the common root folder, if there is one
WithoutCommonRoot(l) ==
    IF CommonRoots(l) # {} THEN RootStripped(l, CHOOSE R \in CommonRoots(l) : TRUE)
    ELSE l

\* the Tab rule and the JSON rule for one name
IsTabName(f) == TabFindall(f) # <<>>
IsJsonName(f) == EndsWith(f, JsonSuffix)

TabCandidates(l) == {i \in 1..Len(l) : IsTabName(l[i])}
JsonCandidates(l) == {i \in 1..Len(l) : IsJsonName(l[i])}

\* the candidate when c holds exactly one index of l, else "not found"
TheCandidate(l, c) ==
    IF Cardinality(c) = 1 THEN <<l[CHOOSE i \in c : TRUE]>> ELSE <<>>

\* a call of _extract_archive has ended
ExtractEnded == op \in {"extracted", "extract_raised"}

\* the archive of that call was in a supported format and could be unpacked
Unpacked == ExtractEnded /\ file_type \in {"zip", "gz"} /\ ~corrupt

\* a visible immediate child of the scratch directory
VisibleName(f) ==
    /\ f[1] # "."
    /\ f # <<"a", "r", "c", "h", "i", "v", "e">>
    /\ f # <<"_", "_", "M", "A", "C", "O", "S", "X">>

VisibleTop == {f \in DOMAIN members : VisibleName(f)}

\* the archive's only visible top-level entry is the directory D
SingleFolder(D) == VisibleTop = {D} /\ members[D].kind = "dir"

\* the names in the destination of the call, before it and now
DestBefore ==
    IF output_path \in DOMAIN fs_before THEN DOMAIN fs_before[output_path] ELSE {}
DestNow == DOMAIN fs[output_path]

----------------------------------------------------------------------------
(* Claims *)

\* C1, as stated: after extracting an archive whose only visible top-level
\* entry is a directory D, every entry that was directly inside D is
\* directly under the destination, and the destination has no entry D.
C1_CollapsedNoFolder ==
    \A D \in DOMAIN members :
        (op = "extracted" /\ Unpacked /\ SingleFolder(D)) =>
            /\ members[D].children \subseteq DestNow
            /\ D \notin DestNow

\* C1, amended: after a call that returns for an archive whose only visible
\* top-level entry is a directory D, the destination holds exactly the
\* entries it had before and the entries that were directly inside D; so it
\* has an entry D only if D held an entry named D or the destination had one.
C1_CollapsedExactly ==
    \A D \in DOMAIN members :
        (op = "extracted" /\ Unpacked /\ SingleFolder(D)) =>
            /\ DestNow = DestBefore \cup members[D].children
            /\ D \in DestNow => D \in members[D].children \/ D \in DestBefore

\* C1 witness: a folder with entries was the only visible entry, its entries
\* are in the destination and the folder is not
C1_Witness ==
    \E D \in DOMAIN members :
        /\ op = "extracted" /\ Unpacked /\ SingleFolder(D)
        /\ members[D].children # {}
        /\ members[D].children \subseteq DestNow
        /\ D \notin DestNow

\* C2: for an archive whose members all lie under one top-level directory R,
\* _list_archive_files returns each member's path relative to R (only the
\* leading 'R/' removed) and no entry for R itself, whether or not the
\* container encodes R as an entry.
C2_ListIsRootStripped ==
    op = "listed" =>
        \A R \in CommonRoots(namelist) : ret[1] = RootStripped(namelist, R)

\* C3: for an archive in a supported format, sniff returns true if and only
\* if the member list, after removal of the common root folder if there is
\* one, holds exactly one name under the Tab rule or exactly one name under
\* the JSON rule.
C3_SniffIffOneCandidate ==
    op = "sniffed" =>
        (ret[1] <=> \/ Cardinality(TabCandidates(WithoutCommonRoot(namelist))) = 1
                    \/ Cardinality(JsonCandidates(WithoutCommonRoot(namelist))) = 1)

\* C4: each investigation locator returns the candidate when the list has
\* exactly one candidate under its rule, and None when it has none or several.
C4_LocatorReturnsTheCandidate ==
    /\ op = "isatab" => ret[1] = TheCandidate(namelist, TabCandidates(namelist))
    /\ op = "isajson" => ret[1] = TheCandidate(namelist, JsonCandidates(namelist))

C6_PositionUnchanged == op = "detected" => pos = pos_before

\* C7: _extract_archive on a stream detected as Unknown or bzip2 raises the
\* unsupported-format error and the destination is as it was: the caller's
\* directory has the entries it had, a directory minted by the call has none.
C7_UnsupportedUntouched ==
    (ExtractEnded /\ file_type \in {None, "bz2"}) =>
        /\ op = "extract_raised"
        /\ exc = "Not supported archive format!!!"
        /\ fs[TargetDir] = fs_before[TargetDir]
        /\ fs[output_path] = IF output_path = TargetDir THEN fs_before[TargetDir]
                              ELSE EmptyDir

\* C7 witness: a bzip2 archive was refused and the destination has entries
C7_Witness ==
    /\ op = "extract_raised" /\ file_type = "bz2"
    /\ output_path = TargetDir /\ fs[TargetDir] # EmptyDir
    /\ members # EmptyDir

\* C8: when the scratch directory has more than one visible immediate child
\* no child that is not visible is ever moved to the destination, and a call
\* that returns has moved every visible child there as it is, uncollapsed.
C8_EachVisibleMoved ==
    (Unpacked /\ Cardinality(VisibleTop) > 1) =>
        /\ DestNow \ DestBefore \subseteq VisibleTop
        /\ op = "extracted" =>
              /\ DestNow = DestBefore \cup VisibleTop
              /\ \A f \in VisibleTop : fs[output_path][f] = members[f]

\* C8 witness: an archive with two visible children, one a folder with
\* entries, and a child that is not visible has been extracted
C8_Witness ==
    /\ op = "extracted" /\ Unpacked /\ Cardinality(VisibleTop) > 1
    /\ \E f \in VisibleTop : members[f].kind = "dir" /\ members[f].children # {}
    /\ \E h \in DOMAIN members : ~VisibleName(h)

\* C9: when the members of an archive do not share their top-level segment,
\* _list_archive_files returns every member name unchanged and drops none.
C9_NoCommonRootUnchanged ==
    (/\ op = "listed"
     /\ \E i, j \in 1..Len(namelist) :
            SplitFirst(namelist[i]) # SplitFirst(namelist[j]))
        => ret[1] = namelist

\* C10: extraction of an archive with no visible top-level child does not
\* crash with an internal error (it returns, or reports an empty archive),
\* leaves the destination as it was and removes the scratch directory.
C10_EmptyTolerated ==
    (Unpacked /\ VisibleTop = {}) =>
        /\ exc \in {"", "EmptyArchive"}
        /\ DestNow = DestBefore
        /\ TempFolder(calls) \notin DOMAIN fs

\* C11: every temporary directory an extraction call creates (the scratch
\* directory of _extract_zip_archive / _extract_tar_archive, the directory
\* minted when no destination is given) no longer exists when the call ends,
\* however it ends, unless it is the value the call returns.
C11_TempDirsRemoved ==
    ExtractEnded =>
        \A d \in DOMAIN fs \ DOMAIN fs_before : ret = <<d>>

\* C12: _get_main_file tries the Tab rule first and the JSON rule only if
\* the Tab rule finds nothing, and across repeated calls on a dataset the
\* rule that has once found the main file is the rule of every later call
\* that finds one, even if the files of the extra files folder change.
C12_RuleRemembered ==
    /\ op = "main_file" =>
         main_rule = IF extra_files # "present" THEN "none"
                     ELSE IF Cardinality({f \in isa_files : IsTabName(f)}) = 1
                     THEN "tab"
                     ELSE IF Cardinality({f \in isa_files : IsJsonName(f)}) = 1
                     THEN "json"
                     ELSE "none"
    /\ Cardinality(main_rules) <= 1

\* C13: whenever _extract_archive returns, every visible top-level entry of
\* the unpacked archive is in the destination: as itself, or through the
\* entries it held when it was the single top-level folder.
C13_NoVisibleContentLost ==
    (op = "extracted" /\ Unpacked) =>
        \A f \in VisibleTop :
            IF SingleFolder(f) THEN members[f].children \subseteq DestNow
            ELSE f \in DestNow

\* C14: a name returned by an investigation locator is an element of the
\* list the locator was given.
C14_ReturnedNameInList ==
    (op \in {"isatab", "isajson"} /\ ret[1] # <<>>) =>
        \E i \in 1..Len(namelist) : namelist[i] = ret[1][1]

====
